---- MODULE Spec2Model ----
(***************************************************************************)
(* A model of the fuzzy finder of lk (fuzzy_finder/src/lib.rs): the search *)
(* model (query, items, matches), the list window, the escape decoder of   *)
(* FuzzyFinder::find and the terminal session (raw mode, repaints); and of *)
(* get_function of the script parser (lk/src/script.rs).                   *)
(*                                                                         *)
(* Strings are sequences of one-character strings.  An Option is a record  *)
(* with a boolean field `some`.  Time is counted in microseconds.          *)
(***************************************************************************)
EXTENDS Integers, Sequences, FiniteSets, TLC

(***************************************************************************)
(* Bounds of the model.                                                    *)
(***************************************************************************)
\* longest query the model lets the user type
MaxQuery == 2
\* largest number of list rows (lines_to_show) a session is started with
MaxLines == 2
\* a delivery to the keyboard channel needs fewer than this many unread keys
MaxPending == 1
\* the granularity by which the clock advances
TickMicros == 100
\* longest header line handed to get_function
MaxLineLen == 5
\* most lines of a script file read by Script::new
MaxFileLines == 4

(***************************************************************************)
(* Program constants.                                                      *)
(***************************************************************************)
\* `instant.elapsed().as_micros() > 100`
EscTimeoutMicros == 100
\* the number of values of a u16 (`console_offset: u16`) and of an i16
TwoPow16 == 65536

(***************************************************************************)
(* Option<(i64, Vec<usize>)>, the score slot of an Item.                   *)
(***************************************************************************)
NoScore == [some |-> FALSE, rank |-> 0, idx |-> <<>>]
SomeScore(r, ix) == [some |-> TRUE, rank |-> r, idx |-> ix]

(***************************************************************************)
(* The matcher.  SkimMatcherV2 is an external crate; the finder relies     *)
(* only on fuzzy_indices(text, pattern) being a deterministic function     *)
(* that returns None or Some((rank, matched byte positions)).  The         *)
(* stand-in below matches when the pattern is a subsequence of the text,   *)
(* reports the leftmost embedding (0-based positions) and ranks 16 per     *)
(* matched character minus the characters skipped between matched ones.    *)
(* The empty pattern matches everything with rank 0 and no positions.      *)
(***************************************************************************)
RECURSIVE Embed(_, _, _)
Embed(text, pattern, from) ==
    \* the leftmost embedding of pattern in text[from..]; <<-1>> when none
    IF pattern = <<>> THEN <<>>
    ELSE IF from > Len(text) THEN <<-1>>
    ELSE IF text[from] = Head(pattern)
         THEN LET rest == Embed(text, Tail(pattern), from + 1)
              IN  IF rest = <<-1>> THEN <<-1>> ELSE <<from - 1>> \o rest
         ELSE Embed(text, pattern, from + 1)

fuzzy_indices(text, pattern) ==
    LET ix == Embed(text, pattern, 1)
    IN  IF ix = <<-1>> THEN NoScore
        ELSE IF ix = <<>> THEN SomeScore(0, <<>>)
        ELSE SomeScore(16 * Len(ix) - ((ix[Len(ix)] - ix[1] + 1) - Len(ix)), ix)

(***************************************************************************)
(* Ord for Option<(i64, Vec<usize>)>: None < Some, then the rank, then the *)
(* position vectors lexicographically.  -1 less, 0 equal, 1 greater.       *)
(***************************************************************************)
RECURSIVE VecCmp(_, _)
VecCmp(u, v) ==
    IF u = <<>> /\ v = <<>> THEN 0
    ELSE IF u = <<>> THEN -1
    ELSE IF v = <<>> THEN 1
    ELSE IF Head(u) < Head(v) THEN -1
    ELSE IF Head(u) > Head(v) THEN 1
    ELSE VecCmp(Tail(u), Tail(v))

ScoreCmp(s, t) ==
    IF ~s.some /\ ~t.some THEN 0
    ELSE IF ~s.some THEN -1
    ELSE IF ~t.some THEN 1
    ELSE IF s.rank < t.rank THEN -1
    ELSE IF s.rank > t.rank THEN 1
    ELSE VecCmp(s.idx, t.idx)

(***************************************************************************)
(* matches.sort_by(|a, b| b.score.cmp(&a.score)): a stable sort; x goes    *)
(* before y exactly when b.score.cmp(&a.score) is Less for a = x, b = y.   *)
(***************************************************************************)
RECURSIVE InsertSorted(_, _)
InsertSorted(sorted, x) ==
    \* x goes behind every element it is not strictly before
    IF sorted = <<>> THEN <<x>>
    ELSE IF ScoreCmp(Head(sorted).score, x.score) = -1
         THEN <<x>> \o sorted
         ELSE <<Head(sorted)>> \o InsertSorted(Tail(sorted), x)

RECURSIVE SortDesc(_)
SortDesc(s) ==
    IF s = <<>> THEN <<>>
    ELSE InsertSorted(SortDesc(SubSeq(s, 1, Len(s) - 1)), s[Len(s)])

(***************************************************************************)
(* Item<T> (fuzzy_finder/src/item.rs): a label, the caller's payload, the  *)
(* score slot and the blank flag of a padding row.  Payloads are positive  *)
(* numbers; 0 stands for `item: None`.                                     *)
(***************************************************************************)
Item(name, payload) ==
    [name |-> name, item |-> payload, score |-> NoScore, is_blank |-> FALSE]

BlankItem == [name |-> <<>>, item |-> 0, score |-> NoScore, is_blank |-> TRUE]

\* the identity by which the list window follows a selected item
Identity(it) == <<it.name, it.item>>

(***************************************************************************)
(* The list window (fuzzy_finder/src/list.rs).  lines_to_show is the       *)
(* capacity, selected_index the selected row of the window, scroll_offset  *)
(* the index in matches of the first row, items the visible rows, tracked  *)
(* the identity of the selected item (<<>> when nothing is selected).      *)
(***************************************************************************)
Blanks(n) == [r \in 1..n |-> BlankItem]

ListNew(lines_to_show) ==
    [lines_to_show |-> lines_to_show, selected_index |-> 0, scroll_offset |-> 0,
     items |-> Blanks(lines_to_show), tracked |-> <<>>]

\* the rows of the window that starts at `offset`
VisibleRows(ms, offset, n) ==
    [r \in 1..n |-> IF offset + r <= Len(ms) THEN ms[offset + r] ELSE BlankItem]

\* the first index (0-based) of the item with identity id in ms, or -1
IndexOf(ms, id) ==
    IF \E i \in 1..Len(ms) : Identity(ms[i]) = id
    THEN (CHOOSE i \in 1..Len(ms) :
             /\ Identity(ms[i]) = id
             /\ \A j \in 1..(i - 1) : Identity(ms[j]) # id) - 1
    ELSE -1

\* List::update: re-derive the window, following the selected item when it
\* is still a match and going back to the top when it is not
ListUpdate(l, ms) ==
    LET p == IF l.tracked = <<>> THEN -1 ELSE IndexOf(ms, l.tracked)
        n == l.lines_to_show
    IN  IF ms = <<>>
        THEN [l EXCEPT !.selected_index = 0, !.scroll_offset = 0,
                       !.items = Blanks(n), !.tracked = <<>>]
        ELSE IF p = -1
        THEN [l EXCEPT !.selected_index = 0, !.scroll_offset = 0,
                       !.items = VisibleRows(ms, 0, n),
                       !.tracked = Identity(ms[1])]
        ELSE LET off == IF p < l.scroll_offset THEN p
                        ELSE IF p >= l.scroll_offset + n THEN p - n + 1
                        ELSE l.scroll_offset
             IN  [l EXCEPT !.selected_index = p - off, !.scroll_offset = off,
                           !.items = VisibleRows(ms, off, n)]

\* List::up: one match towards the first, never past it
ListUp(l, ms) ==
    LET cur == l.scroll_offset + l.selected_index
    IN  IF ms = <<>> \/ cur = 0 THEN l
        ELSE IF l.selected_index > 0
        THEN [l EXCEPT !.selected_index = @ - 1, !.tracked = Identity(ms[cur])]
        ELSE [l EXCEPT !.scroll_offset = @ - 1, !.tracked = Identity(ms[cur])]

\* List::down: one match towards the last, never past it
ListDown(l, ms) ==
    LET cur == l.scroll_offset + l.selected_index
    IN  IF ms = <<>> \/ cur + 1 >= Len(ms) THEN l
        ELSE IF l.selected_index < l.lines_to_show - 1
        THEN [l EXCEPT !.selected_index = @ + 1, !.tracked = Identity(ms[cur + 2])]
        ELSE [l EXCEPT !.scroll_offset = @ + 1, !.tracked = Identity(ms[cur + 2])]

\* List::get_selected: the row at the selection
ListGetSelected(l) == l.items[l.selected_index + 1]

(***************************************************************************)
(* The state of one call of FuzzyFinder::find.                             *)
(***************************************************************************)
VARIABLES
    search_term,  \* FuzzyFinder.search_term
    all_items,    \* FuzzyFinder.all_items
    matches,      \* FuzzyFinder.matches
    list,         \* FuzzyFinder.list
    first,        \* FuzzyFinder.first
    raw,          \* the terminal is in raw mode (FuzzyFinder.stdout is alive)
    escaped,      \* find: `escaped`
    elapsed,      \* find: `instant.elapsed()` in microseconds (0 when idle)
    stdin,        \* find: the keys of `stdin` that were delivered, not yet read
    pc,           \* "new", "start", "loop" or "done"
    result,       \* what find returned
    exit,         \* the way find was left: "", "timeout", "ctrl", "enter", "error",
                  \* "panic"
    screen,       \* what the last repaint wrote
    lastKey,      \* the key the loop read last ("" before the first)
    lastEvent,    \* what the loop did with that key
    calls,        \* the update_matches, matcher and render calls of that step
    before,       \* the selection as it was when that key was read
    teardown,     \* what find wrote to the terminal after the last repaint
    cursor_pos,         \* what `stdout.cursor_pos()` answers
    terminal_height,    \* the rows `termion::terminal_size()` reports
    overflow_checks,    \* the build panics on integer overflow (it wraps if not)
    console_offset,             \* FuzzyFinder.console_offset
    positive_space_remaining,   \* FuzzyFinder.positive_space_remaining
    line,                   \* get_function: `line`
    comments_found_so_far,  \* get_function: `comments_found_so_far`
    function,               \* what get_function returned
    file,                   \* Script::new: the lines of the file
    pos,                    \* Script::new: the index of the next line
    comments,               \* Script::new: `comments`
    included_comments,      \* Script::new: `included_comments`
    included_functions,     \* Script::new: `included_functions`
    in_header_comments,     \* Script::new: `in_header_comments`
    location,     \* execute: the path of the temporary file ("" when idle)
    temp_file,    \* the temporary file exists
    cmd,          \* the child: "none", "running" or "ended"
    exit_status,  \* what `exit_status.code()` answers once the child ended
    exec_pc,      \* execute: "idle", "spawn", "wait", "match", "exit",
                  \* "exited", "returned", "failed" or "panicked"
    stderr        \* what execute printed with eprintln!

\* the state of the script parser (lk/src/script.rs)
scanVars == <<file, pos, comments, included_comments, included_functions,
              in_header_comments>>

\* the state of the run of the temporary file (bash_file.rs, main.rs)
execVars == <<location, temp_file, cmd, exit_status, exec_pc, stderr>>

scriptVars == <<line, comments_found_so_far, function, scanVars, execVars>>

\* the terminal as FuzzyFinder::new finds it and the offsets it derives
termVars == <<cursor_pos, terminal_height, overflow_checks, console_offset,
              positive_space_remaining>>

\* the state of the finder (fuzzy_finder/src/lib.rs)
finderVars == <<search_term, all_items, matches, list, first, raw, escaped,
                elapsed, stdin, pc, result, exit, screen, lastKey, lastEvent,
                calls, before, teardown, termVars>>

vars == <<search_term, all_items, matches, list, first, raw, escaped, elapsed,
          stdin, pc, result, exit, screen, lastKey, lastEvent, calls, before,
          teardown, cursor_pos, terminal_height, overflow_checks,
          console_offset, positive_space_remaining,
          line, comments_found_so_far, function, file, pos, comments,
          included_comments, included_functions, in_header_comments,
          location, temp_file, cmd, exit_status, exec_pc, stderr>>

\* Result<Option<T>>
OkNone == [ok |-> TRUE, some |-> FALSE, val |-> 0]
OkSome(v) == [ok |-> TRUE, some |-> TRUE, val |-> v]
IoErr == [ok |-> FALSE, some |-> FALSE, val |-> 0]
NotReturned == [ok |-> FALSE, some |-> FALSE, val |-> -1]

\* the characters typed in the sessions over ItemChoices
TypedChars == {"a", "[", "A", "B"}
\* the characters typed in the session over ScenarioItems
ScenarioChars == {"a", "l"}
\* a character whose UTF-8 encoding is two bytes long
WideChars == {"é"}
\* the printable characters the keyboard sends as Key::Char
Chars == TypedChars \cup ScenarioChars \cup WideChars
\* every key token: Key::Esc, Key::Char('\n'), Key::Backspace, Key::Ctrl('c'),
\* Key::Ctrl('d'), any other key (Key::Left, ...) and the characters
Keys == {"Esc", "Enter", "Backspace", "CtrlC", "CtrlD", "Other"} \cup TypedChars

\* a delivered key; burst tells that it came in one write with its neighbours,
\* as the three bytes of an arrow key do
Token(k, b) == [key |-> k, burst |-> b]
ArrowBurst(c) == <<Token("Esc", TRUE), Token("[", TRUE), Token(c, TRUE)>>

\* the values of `escaped`
EscNone == <<>>
EscPending == <<"^", "[">>
EscBracket == <<"^", "[", "[">>

NoCalls == [update_matches |-> 0, scoring |-> 0, render |-> 0]

\* the selected item (<<>> when there is none) and its index in matches
Selection(l) == [sel |-> l.tracked, idx |-> l.scroll_offset + l.selected_index]

\* Function { name, comment }; NoFunction before get_function has returned
NoFunction == [name |-> <<"?">>, comment |-> <<>>, returned |-> FALSE]

\* no file is being scanned
ScanIdle ==
    /\ file = <<>>
    /\ pos = 1
    /\ comments = <<>>
    /\ included_comments = <<>>
    /\ included_functions = <<>>
    /\ in_header_comments = FALSE

\* Option<i32>, the answer of ExitStatus::code()
NoCode == <<>>
SomeCode(c) == <<c>>

\* no temporary file is being executed
ExecIdle ==
    /\ location = ""
    /\ temp_file = FALSE
    /\ cmd = "none"
    /\ exit_status = NoCode
    /\ exec_pc = "idle"
    /\ stderr = <<>>

\* no header line is being parsed
ScriptIdle ==
    /\ line = <<>>
    /\ comments_found_so_far = <<>>
    /\ function = NoFunction
    /\ ScanIdle
    /\ ExecIdle

\* the item collections a session is started with
ItemChoices ==
    { <<>>,
      << Item(<<"a", "b">>, 1), Item(<<"b", "a">>, 2), Item(<<"a", "a">>, 3),
         Item(<<"b">>, 4) >> }

\* the items of the end-to-end scenario: alpha, beta, alcove
ScenarioItems ==
    << Item(<<"a", "l", "p", "h", "a">>, 1),
       Item(<<"b", "e", "t", "a">>, 2),
       Item(<<"a", "l", "c", "o", "v", "e">>, 3) >>

(***************************************************************************)
(* The methods of FuzzyFinder, on m = [search_term, all_items, matches,    *)
(* list].                                                                  *)
(***************************************************************************)
\* `for f in &mut self.all_items { f.score = matcher.fuzzy_indices(..) }`
ScoreAll(items, term) ==
    [i \in 1..Len(items) |->
        [items[i] EXCEPT !.score = fuzzy_indices(items[i].name, term)]]

\* the items without the filter
FilterMatches_all(items) == items

\* `.filter(|f| f.score.is_some()).cloned().collect()`
FilterMatches(items) == SelectSeq(items, LAMBDA f : f.score.some)

\* `matches.sort_by(|a, b| b.score.cmp(&a.score))`
SortMatches(ms) == SortDesc(ms)

\* update_matches that hands the list the matches of the previous query
update_matches_staleList(m) ==
    LET items == ScoreAll(m.all_items, m.search_term)
        ms == SortMatches(FilterMatches(items))
    IN  [m EXCEPT !.all_items = items, !.matches = ms,
                  !.list = ListUpdate(m.list, m.matches)]

update_matches(m) ==
    LET items == ScoreAll(m.all_items, m.search_term)
        ms == SortMatches(FilterMatches(items))
    IN  [m EXCEPT !.all_items = items, !.matches = ms,
                  !.list = ListUpdate(m.list, ms)]

\* up without the update_matches call that re-derives the window
up_noUpdate(m) == [m EXCEPT !.list = ListUp(m.list, m.matches)]

up(m) == update_matches([m EXCEPT !.list = ListUp(m.list, m.matches)])

\* down that moves the selection by two matches
down_twice(m) ==
    update_matches([m EXCEPT !.list =
                       ListDown(ListDown(m.list, m.matches), m.matches)])

\* down that calls list.up
down_callsUp(m) == update_matches([m EXCEPT !.list = ListUp(m.list, m.matches)])

down(m) == update_matches([m EXCEPT !.list = ListDown(m.list, m.matches)])

append(m, c) == update_matches([m EXCEPT !.search_term = @ \o <<c>>])

\* char::len_utf8
len_utf8(c) == IF c \in WideChars THEN 2 ELSE 1

\* str::len: the length of a string in bytes
RECURSIVE ByteLen(_)
ByteLen(s) == IF s = <<>> THEN 0 ELSE len_utf8(Head(s)) + ByteLen(Tail(s))

\* the character counts k for which the first k characters of s are its
\* first n bytes; empty exactly when byte n is not a character boundary
CharsUpTo(s, n) == {k \in 0..Len(s) : ByteLen(SubSeq(s, 1, k)) = n}

\* `&s[..n]`, a slice by byte index: it panics unless n is a boundary
SlicePanics(s, n) == CharsUpTo(s, n) = {}

SliceTo(s, n) == SubSeq(s, 1, CHOOSE k \in CharsUpTo(s, n) : TRUE)

\* `&self.search_term[..self.search_term.chars().count() - 1]` panics
backspace_panics(m) ==
    /\ Len(m.search_term) > 0
    /\ SlicePanics(m.search_term, Len(m.search_term) - 1)

\* the slice of backspace ends at the byte whose index is the number of
\* characters less one
backspace(m) ==
    IF Len(m.search_term) > 0
    THEN LET term == SliceTo(m.search_term, Len(m.search_term) - 1)
         IN  update_matches([m EXCEPT !.search_term = term,
                                      !.all_items = ScoreAll(m.all_items, term)])
    ELSE update_matches(m)

(***************************************************************************)
(* The integer types of the terminal rows.  An `as` cast wraps; +, - and   *)
(* abs panic on overflow in a build with overflow checks and wrap in a     *)
(* build without them.                                                     *)
(***************************************************************************)
\* the value of x in a u16
WrapU16(x) == x % TwoPow16

\* the value of x in an i16
WrapI16(x) ==
    LET w == x % TwoPow16 IN IF 2 * w >= TwoPow16 THEN w - TwoPow16 ELSE w

FitsU16(x) == x = WrapU16(x)

FitsI16(x) == x = WrapI16(x)

\* a terminal: whether it answers cursor_pos(), the cursor row, the height
Term(ok, y, h) == [cursor_pos |-> [ok |-> ok, y |-> y], terminal_height |-> h]

\* FuzzyFinder::new: console_offset and positive_space_remaining.  The abs
\* of i16::MIN panics with overflow checks and is i16::MIN without, which
\* try_into::<u16>().unwrap() refuses, so that value panics in every build.
new(cp, th, lines_to_show, checks) ==
    IF ~cp.ok
    THEN [panics |-> FALSE, console_offset |-> 0,
          positive_space_remaining |-> 0]
    ELSE LET starting_y == cp.y
             sum == starting_y + WrapU16(lines_to_show)
             ending_y == WrapU16(sum)
             diff == WrapI16(th) - WrapI16(ending_y)
             space_remaining == WrapI16(diff)
         IN  IF \/ checks /\ (~FitsU16(sum) \/ ~FitsI16(diff))
                \/ ~FitsI16(-space_remaining)
             THEN [panics |-> TRUE, console_offset |-> 0,
                   positive_space_remaining |-> 0]
             ELSE [panics |-> FALSE, console_offset |-> cp.y,
                   positive_space_remaining |->
                       IF space_remaining < 0 THEN -space_remaining ELSE 0]

\* goto_start: the row of `Goto(1, console_offset - positive_space_remaining)`
goto_start(offset, space) == WrapU16(offset - space)

goto_start_panics(offset, space, checks) == checks /\ offset < space

\* render_prompt: `prompt_y`
prompt_y(lines_to_show) == WrapU16(WrapU16(lines_to_show) + 1)

\* render_prompt: the row of `Goto(.., prompt_y + self.console_offset)`
render_prompt(lines_to_show, offset) ==
    WrapU16(prompt_y(lines_to_show) + offset)

render_prompt_panics(lines_to_show, offset, checks) ==
    /\ checks
    /\ \/ ~FitsU16(WrapU16(lines_to_show) + 1)
       \/ ~FitsU16(prompt_y(lines_to_show) + offset)

(***************************************************************************)
(* render: render_space, render_items, render_prompt.  A write can fail in *)
(* the `writeln!`s of render_space (first paint only) and of render_items  *)
(* and in the flush of render_prompt; the repaint is then incomplete.  The *)
(* subtraction of goto_start (at the start of render_items) and the sums   *)
(* of render_prompt can panic.                                             *)
(***************************************************************************)
RenderOutcomes(isFirst, l) ==
    (IF isFirst /\ l.lines_to_show > 0 THEN {"space"} ELSE {}) \cup
    (IF goto_start_panics(console_offset, positive_space_remaining,
                          overflow_checks)
     THEN {"panic"}
     ELSE {"items"} \cup
          (IF render_prompt_panics(l.lines_to_show, console_offset,
                                   overflow_checks)
           THEN {"panic"}
           ELSE {"prompt", "ok"}))

\* a first paint that highlights no row
render_firstUnselected(m, isFirst, outcome) ==
    [reserved |-> IF isFirst /\ m.list.lines_to_show > 0
                  THEN m.list.lines_to_show ELSE 0,
     anchor |-> goto_start(console_offset, positive_space_remaining),
     items |-> m.list.items,
     selected |-> IF isFirst THEN -1 ELSE m.list.selected_index,
     prompt_row |-> render_prompt(m.list.lines_to_show, console_offset),
     prompt |-> m.search_term,
     complete |-> outcome = "ok"]

\* a repaint that reserves the rows every time
render_alwaysReserves(m, isFirst, outcome) ==
    [reserved |-> m.list.lines_to_show,
     anchor |-> goto_start(console_offset, positive_space_remaining),
     items |-> m.list.items,
     selected |-> m.list.selected_index,
     prompt_row |-> render_prompt(m.list.lines_to_show, console_offset),
     prompt |-> m.search_term,
     complete |-> outcome = "ok"]

render(m, isFirst, outcome) ==
    [reserved |-> IF isFirst /\ m.list.lines_to_show > 0
                  THEN m.list.lines_to_show ELSE 0,
     anchor |-> goto_start(console_offset, positive_space_remaining),
     items |-> m.list.items,
     selected |-> m.list.selected_index,
     prompt_row |-> render_prompt(m.list.lines_to_show, console_offset),
     prompt |-> m.search_term,
     complete |-> outcome = "ok"]

NoScreen ==
    [reserved |-> 0, anchor |-> 0, items |-> <<>>, selected |-> 0,
     prompt_row |-> 0, prompt |-> <<>>, complete |-> FALSE]

\* the rows find cleared and whether it wrote cursor::Restore, on its way out
NoTeardown == [cleared |-> {}, restore |-> FALSE]

\* the timeout check: `write!(state.stdout, "{}", termion::cursor::Restore)`
TimeoutTeardown == [cleared |-> {}, restore |-> TRUE]

\* the Enter arm with a match: clear::CurrentLine is written once for each
\* value of console_offset..console_offset + lines_to_show as u16 + 4, and
\* nothing moves the cursor off the row where render_prompt left it
EnterTeardown(lines_to_show, offset, row) ==
    LET end == WrapU16(WrapU16(offset + WrapU16(lines_to_show)) + 4)
    IN  [cleared |-> IF end > offset THEN {row} ELSE {}, restore |-> FALSE]

Model == [search_term |-> search_term, all_items |-> all_items,
          matches |-> matches, list |-> list]

\* a return that leaves the terminal in raw mode
Return_leak(r, way) ==
    /\ pc' = "done"
    /\ result' = r
    /\ exit' = way
    /\ raw' = raw

\* find returns r by the path `way`: `state`, and with it the RawTerminal whose
\* Drop puts the terminal back in cooked mode, goes out of scope
Return(r, way) ==
    /\ pc' = "done"
    /\ result' = r
    /\ exit' = way
    /\ raw' = FALSE

\* a panic unwinds out of find, which returns nothing; the unwinding drops
\* `state` and the RawTerminal in it
Panic ==
    /\ pc' = "done"
    /\ result' = NotReturned
    /\ exit' = "panic"
    /\ raw' = FALSE

\* the model becomes m and is repainted; a failed write ends find with Err
ApplyAndRender(m) ==
    \E outcome \in RenderOutcomes(first, m.list) :
        /\ search_term' = m.search_term
        /\ all_items' = m.all_items
        /\ matches' = m.matches
        /\ list' = m.list
        /\ first' = IF outcome = "space" THEN first ELSE FALSE
        /\ screen' = render(m, first, outcome)
        /\ UNCHANGED teardown
        /\ IF outcome = "ok"
           THEN pc' = "loop" /\ UNCHANGED <<result, exit, raw>>
           ELSE IF outcome = "panic"
           THEN Panic
           ELSE Return(IoErr, "error")

(***************************************************************************)
(* The state at the entry of find, after FuzzyFinder::new.                 *)
(***************************************************************************)
\* the terminal of the sessions whose geometry is not varied
DefaultTerm == Term(TRUE, 1, 24)

\* the fields that new derives from the terminal t
TermAfterNew(t, lines_to_show, checks) ==
    LET r == new(t.cursor_pos, t.terminal_height, lines_to_show, checks)
    IN  /\ cursor_pos = t.cursor_pos
        /\ terminal_height = t.terminal_height
        /\ overflow_checks = checks
        /\ console_offset = r.console_offset
        /\ positive_space_remaining = r.positive_space_remaining

\* the fields that do not depend on the terminal
FinderFields(items, lines_to_show) ==
    /\ search_term = <<>>
    /\ all_items = items
    /\ matches = <<>>
    /\ list = ListNew(lines_to_show)
    /\ first = TRUE
    /\ raw = TRUE
    /\ escaped = EscNone
    /\ elapsed = 0
    /\ stdin = <<>>
    /\ result = NotReturned
    /\ exit = ""
    /\ screen = NoScreen
    /\ lastKey = ""
    /\ lastEvent = ""
    /\ calls = NoCalls
    /\ before = Selection(ListNew(lines_to_show))
    /\ teardown = NoTeardown

InitFinder(items, lines_to_show) ==
    /\ FinderFields(items, lines_to_show)
    /\ pc = "start"
    /\ TermAfterNew(DefaultTerm, lines_to_show, FALSE)

\* find is called with a collection of ItemChoices and a positive capacity
Init ==
    /\ \E items \in ItemChoices, n \in 1..MaxLines : InitFinder(items, n)
    /\ ScriptIdle

\* `state.update_matches(); state.render()?;` and the loop is entered
Start ==
    /\ pc = "start"
    /\ ApplyAndRender(update_matches(Model))
    /\ lastEvent' = "FirstPaint"
    /\ calls' = [update_matches |-> 1, scoring |-> 1, render |-> 1]
    /\ UNCHANGED <<escaped, elapsed, stdin, lastKey, before, scriptVars,
                   termVars>>

(***************************************************************************)
(* The environment: keys are delivered to the channel of async_stdin, one  *)
(* at a time or as the three-byte burst of an arrow key, and time passes.  *)
(* `instant` is set when the Escape that starts a sequence is read, so     *)
(* elapsed counts from there for as long as the sequence is pending and is *)
(* 0 when none is.  The clock is followed until it is past the threshold.  *)
(***************************************************************************)
Deliver ==
    /\ pc = "loop"
    /\ Len(stdin) < MaxPending
    /\ \/ \E k \in Keys : stdin' = Append(stdin, Token(k, FALSE))
       \/ \E c \in {"A", "B"} : stdin' = stdin \o ArrowBurst(c)
    /\ UNCHANGED <<search_term, all_items, matches, list, first, raw, escaped,
                   elapsed, pc, result, exit, screen, lastKey, lastEvent, calls,
                   before, scriptVars, teardown,
                   termVars>>

Tick ==
    /\ pc = "loop"
    /\ escaped # EscNone
    /\ elapsed <= EscTimeoutMicros
    /\ elapsed' = elapsed + TickMicros
    /\ UNCHANGED <<search_term, all_items, matches, list, first, raw, escaped,
                   stdin, pc, result, exit, screen, lastKey, lastEvent, calls,
                   before, scriptVars, teardown,
                   termVars>>

(***************************************************************************)
(* One iteration of the loop of find.                                      *)
(***************************************************************************)
\* the threshold taken in milliseconds
EscapeTimedOut_millis(esc, micros) ==
    esc = EscPending /\ micros > 1000 * EscTimeoutMicros

\* `escaped == "^[" && instant.elapsed().as_micros() > 100`
EscapeTimedOut(esc, micros) == esc = EscPending /\ micros > EscTimeoutMicros

\* the timeout check: the cursor-restore goes to the (just flushed) buffer of
\* stdout, the loop is left and find returns Ok(None)
TimeoutCancel ==
    /\ pc = "loop"
    /\ EscapeTimedOut(escaped, elapsed)
    /\ Return(OkNone, "timeout")
    /\ calls' = NoCalls
    /\ teardown' = TimeoutTeardown
    /\ UNCHANGED <<search_term, all_items, matches, list, first, escaped,
                   elapsed, stdin, screen, lastKey, lastEvent, before,
                   scriptVars, termVars>>

\* `if let Some(Ok(key)) = stdin.next()` yields k
Reads(k) ==
    /\ pc = "loop"
    /\ ~EscapeTimedOut(escaped, elapsed)
    /\ stdin # <<>>
    /\ Head(stdin).key = k
    /\ stdin' = Tail(stdin)
    /\ lastKey' = k
    /\ before' = Selection(list)
    /\ UNCHANGED <<scriptVars, termVars>>

\* Ctrl-C and Ctrl-D honoured only when no escape sequence is pending
KeyCtrl_idleOnly ==
    /\ \E k \in {"CtrlC", "CtrlD"} : Reads(k)
    /\ IF escaped = EscNone
       THEN Return(OkNone, "ctrl") /\ lastEvent' = "Cancel"
       ELSE lastEvent' = "Ignore" /\ UNCHANGED <<pc, result, exit, raw>>
    /\ calls' = NoCalls
    /\ UNCHANGED <<search_term, all_items, matches, list, first, escaped,
                   elapsed, screen, teardown>>

\* Key::Ctrl('c') => break, Key::Ctrl('d') => break
KeyCtrl ==
    /\ \E k \in {"CtrlC", "CtrlD"} : Reads(k)
    /\ Return(OkNone, "ctrl")
    /\ lastEvent' = "Cancel"
    /\ calls' = NoCalls
    /\ UNCHANGED <<search_term, all_items, matches, list, first, escaped,
                   elapsed, screen, teardown>>

\* the payload of the first item of the collection, match or not
EnterResult_firstItem(m) ==
    IF m.all_items # <<>> THEN OkSome(m.all_items[1].item) ELSE OkNone

\* the payload of the best match instead of the selected one
EnterResult_top(m) ==
    IF m.matches # <<>> THEN OkSome(m.matches[1].item) ELSE OkNone

\* what the Enter arm returns
EnterResult(m) ==
    IF m.matches # <<>> THEN OkSome(ListGetSelected(m.list).item) ELSE OkNone

\* an Enter arm that keeps the loop running when there is no match
KeyEnter_noopOnEmpty ==
    /\ Reads("Enter")
    /\ IF matches # <<>>
       THEN Return(EnterResult(Model), "enter")
       ELSE UNCHANGED <<pc, result, exit, raw>>
    /\ lastEvent' = "Confirm"
    /\ calls' = NoCalls
    /\ teardown' = IF matches # <<>>
                   THEN EnterTeardown(list.lines_to_show, console_offset,
                                      screen.prompt_row)
                   ELSE teardown
    /\ UNCHANGED <<search_term, all_items, matches, list, first, escaped,
                   elapsed, screen>>

\* Key::Char('\n'): the arm returns, with or without a selection
KeyEnter ==
    /\ Reads("Enter")
    /\ Return(EnterResult(Model), "enter")
    /\ lastEvent' = "Confirm"
    /\ calls' = NoCalls
    /\ teardown' = IF matches # <<>>
                   THEN EnterTeardown(list.lines_to_show, console_offset,
                                      screen.prompt_row)
                   ELSE teardown
    /\ UNCHANGED <<search_term, all_items, matches, list, first, escaped,
                   elapsed, screen>>

\* Key::Char(c) while an escape sequence is pending: "^[[" => continue
KeyCharPending ==
    /\ Reads("[")
    /\ escaped = EscPending
    /\ escaped' = EscBracket
    /\ lastEvent' = "Pending"
    /\ calls' = NoCalls
    /\ UNCHANGED <<search_term, all_items, matches, list, first, raw, elapsed,
                   pc, result, exit, screen, teardown>>

\* an up arm that moves the selection and does not repaint
KeyCharUp_noRepaint ==
    /\ Reads("A")
    /\ escaped = EscBracket
    /\ escaped' = EscNone
    /\ LET m == up(Model)
       IN  /\ search_term' = m.search_term
           /\ all_items' = m.all_items
           /\ matches' = m.matches
           /\ list' = m.list
    /\ lastEvent' = "Up"
    /\ calls' = [update_matches |-> 1, scoring |-> 1, render |-> 0]
    /\ elapsed' = 0
    /\ UNCHANGED <<first, raw, pc, result, exit, screen, teardown>>

\* "^[[A" => state.up()?
KeyCharUp ==
    /\ Reads("A")
    /\ escaped = EscBracket
    /\ escaped' = EscNone
    /\ ApplyAndRender(up(Model))
    /\ lastEvent' = "Up"
    /\ calls' = [update_matches |-> 1, scoring |-> 1, render |-> 1]
    /\ elapsed' = 0

\* "^[[B" => state.down()?
KeyCharDown ==
    /\ Reads("B")
    /\ escaped = EscBracket
    /\ escaped' = EscNone
    /\ ApplyAndRender(down(Model))
    /\ lastEvent' = "Down"
    /\ calls' = [update_matches |-> 1, scoring |-> 1, render |-> 1]
    /\ elapsed' = 0

\* any other pending sequence is abandoned, and the character with it
KeyCharAbandon ==
    /\ \E c \in Chars :
          /\ Reads(c)
          /\ escaped # EscNone
          /\ escaped \o <<c>> \notin
                {EscBracket, EscBracket \o <<"A">>, EscBracket \o <<"B">>}
    /\ escaped' = EscNone
    /\ elapsed' = 0
    /\ lastEvent' = "Abandon"
    /\ calls' = NoCalls
    /\ UNCHANGED <<search_term, all_items, matches, list, first, raw, pc,
                   result, exit, screen, teardown>>

\* Key::Char(c) with no escape pending: state.append(c)?
KeyCharAppend ==
    /\ \E c \in Chars :
          /\ Reads(c)
          /\ escaped = EscNone
          /\ Len(search_term) < MaxQuery
          /\ ApplyAndRender(append(Model, c))
    /\ lastEvent' = "Insert"
    /\ calls' = [update_matches |-> 1, scoring |-> 1, render |-> 1]
    /\ UNCHANGED <<escaped, elapsed>>

\* Key::Esc: a new escape sequence starts unless one is pending
KeyEsc ==
    /\ Reads("Esc")
    /\ IF escaped = EscNone
       THEN escaped' = EscPending /\ elapsed' = 0
       ELSE UNCHANGED <<escaped, elapsed>>
    /\ lastEvent' = IF escaped = EscNone THEN "Escape" ELSE "Ignore"
    /\ calls' = NoCalls
    /\ UNCHANGED <<search_term, all_items, matches, list, first, raw, pc,
                   result, exit, screen, teardown>>

\* Key::Backspace: state.backspace()?
KeyBackspace ==
    /\ Reads("Backspace")
    /\ IF backspace_panics(Model)
       THEN /\ Panic
            /\ calls' = NoCalls
            /\ UNCHANGED <<search_term, all_items, matches, list, first,
                           screen, teardown>>
       ELSE /\ ApplyAndRender(backspace(Model))
            /\ calls' = [update_matches |-> 1,
                         scoring |-> IF Len(search_term) > 0 THEN 2 ELSE 1,
                         render |-> 1]
    /\ lastEvent' = "Backspace"
    /\ UNCHANGED <<escaped, elapsed>>

\* `_ => {}`
KeyOther ==
    /\ Reads("Other")
    /\ lastEvent' = "Ignore"
    /\ calls' = NoCalls
    /\ UNCHANGED <<search_term, all_items, matches, list, first, raw, escaped,
                   elapsed, pc, result, exit, screen, teardown>>

Next ==
    \/ Start
    \/ Deliver
    \/ Tick
    \/ TimeoutCancel
    \/ KeyCtrl
    \/ KeyEnter
    \/ KeyCharPending
    \/ KeyCharUp
    \/ KeyCharDown
    \/ KeyCharAbandon
    \/ KeyCharAppend
    \/ KeyEsc
    \/ KeyBackspace
    \/ KeyOther

Spec == Init /\ [][Next]_vars

(***************************************************************************)
(* The same session when the writes that end it are allowed to fail too:   *)
(* `write!(state.stdout, ..)?` of the timeout check and of the Enter arm.  *)
(* Those writes go to the buffer of stdout that the previous flush left    *)
(* empty, so they do not report an error in Spec; SpecIO adds the paths.   *)
(***************************************************************************)
TimeoutCancelWriteFails ==
    /\ pc = "loop"
    /\ EscapeTimedOut(escaped, elapsed)
    /\ Return(IoErr, "error")
    /\ calls' = NoCalls
    /\ UNCHANGED <<search_term, all_items, matches, list, first, escaped,
                   elapsed, stdin, screen, lastKey, lastEvent, before,
                   scriptVars, teardown, termVars>>

KeyEnterWriteFails ==
    /\ Reads("Enter")
    /\ matches # <<>>
    /\ Return(IoErr, "error")
    /\ lastEvent' = "Confirm"
    /\ calls' = NoCalls
    /\ UNCHANGED <<search_term, all_items, matches, list, first, escaped,
                   elapsed, screen, teardown>>

NextIO ==
    \/ Start
    \/ Deliver
    \/ Tick
    \/ TimeoutCancel
    \/ TimeoutCancelWriteFails
    \/ KeyCtrl
    \/ KeyEnter
    \/ KeyEnterWriteFails
    \/ KeyCharPending
    \/ KeyCharUp
    \/ KeyCharDown
    \/ KeyCharAbandon
    \/ KeyCharAppend
    \/ KeyEsc
    \/ KeyBackspace
    \/ KeyOther

SpecIO == Init /\ [][NextIO]_vars

(***************************************************************************)
(* The session of the end-to-end scenario: find(ScenarioItems, 2), driven  *)
(* by the letters of the query, Enter, Backspace and the two arrow keys.   *)
(***************************************************************************)
InitScenario ==
    /\ InitFinder(ScenarioItems, 2)
    /\ ScriptIdle

DeliverScenario ==
    /\ pc = "loop"
    /\ Len(stdin) < MaxPending
    /\ \/ \E k \in ScenarioChars \cup {"Enter", "Backspace"} :
             stdin' = Append(stdin, Token(k, FALSE))
       \/ \E c \in {"A", "B"} : stdin' = stdin \o ArrowBurst(c)
    /\ UNCHANGED <<search_term, all_items, matches, list, first, raw, escaped,
                   elapsed, pc, result, exit, screen, lastKey, lastEvent, calls,
                   before, scriptVars, teardown,
                   termVars>>

NextScenario ==
    \/ Start
    \/ DeliverScenario
    \/ Tick
    \/ TimeoutCancel
    \/ KeyEnter
    \/ KeyCharPending
    \/ KeyCharUp
    \/ KeyCharDown
    \/ KeyCharAppend
    \/ KeyEsc
    \/ KeyBackspace

SpecScenario == InitScenario /\ [][NextScenario]_vars

(***************************************************************************)
(* find called with a capacity of 0, as `lk --fuzzy --number -1` does      *)
(* (main passes number + 1).  FuzzyFinder::new takes the capacity as it    *)
(* is: `lines_to_show as u16` is 0 and List::new(0) is stored as the list. *)
(* A window without rows has no row for Enter to return, so this session   *)
(* is the one over the empty collection, where Enter returns None.         *)
(***************************************************************************)
InitZero ==
    /\ InitFinder(<<>>, 0)
    /\ ScriptIdle

SpecZero == InitZero /\ [][Next]_vars

(***************************************************************************)
(* A session in which the user types one-byte and two-byte characters and  *)
(* Backspace.                                                              *)
(***************************************************************************)
InitWide ==
    /\ \E items \in ItemChoices : InitFinder(items, 1)
    /\ ScriptIdle

DeliverWide ==
    /\ pc = "loop"
    /\ Len(stdin) < MaxPending
    /\ \E k \in WideChars \cup {"a", "Backspace"} :
          stdin' = Append(stdin, Token(k, FALSE))
    /\ UNCHANGED <<search_term, all_items, matches, list, first, raw, escaped,
                   elapsed, pc, result, exit, screen, lastKey, lastEvent, calls,
                   before, scriptVars, teardown,
                   termVars>>

NextWide ==
    \/ Start
    \/ DeliverWide
    \/ KeyCharAppend
    \/ KeyBackspace

SpecWide == InitWide /\ [][NextWide]_vars

(***************************************************************************)
(* Sessions on terminals of several geometries, from the call of           *)
(* FuzzyFinder::new on.  The cursor rows lie on the screen; the capacities *)
(* are values of the i8 that main hands over (number + 1), the negative    *)
(* one included; one height is past the range of an i16.  As in SpecZero,  *)
(* a session without rows is one over the empty collection.                *)
(***************************************************************************)
CursorRows == {1, 3, 4}

Heights == {4, 40000}

Capacities == {-1, 1, 2, 5}

Terminals == {Term(ok, y, h) : ok \in BOOLEAN, y \in CursorRows, h \in Heights}

InitTerm ==
    /\ \E n \in Capacities :
          FinderFields(IF n >= 1 THEN CHOOSE c \in ItemChoices : c # <<>>
                       ELSE <<>>, n)
    /\ pc = "new"
    /\ \E t \in Terminals :
          /\ cursor_pos = t.cursor_pos
          /\ terminal_height = t.terminal_height
    /\ overflow_checks \in BOOLEAN
    /\ console_offset = 0
    /\ positive_space_remaining = 0
    /\ ScriptIdle

\* `let mut state = FuzzyFinder::new(items, lines_to_show);`
New ==
    /\ pc = "new"
    /\ LET r == new(cursor_pos, terminal_height, list.lines_to_show,
                    overflow_checks)
       IN  /\ console_offset' = r.console_offset
           /\ positive_space_remaining' = r.positive_space_remaining
           /\ IF r.panics
              THEN Panic
              ELSE pc' = "start" /\ UNCHANGED <<result, exit, raw>>
    /\ UNCHANGED <<search_term, all_items, matches, list, first, escaped,
                   elapsed, stdin, screen, lastKey, lastEvent, calls, before,
                   teardown, cursor_pos, terminal_height, overflow_checks,
                   scriptVars>>

DeliverTerm ==
    /\ pc = "loop"
    /\ Len(stdin) < MaxPending
    /\ \E k \in {"a", "Enter", "Esc", "CtrlC"} :
          stdin' = Append(stdin, Token(k, FALSE))
    /\ UNCHANGED <<search_term, all_items, matches, list, first, raw, escaped,
                   elapsed, pc, result, exit, screen, lastKey, lastEvent, calls,
                   before, scriptVars, teardown, termVars>>

NextTerm ==
    \/ New
    \/ Start
    \/ DeliverTerm
    \/ Tick
    \/ TimeoutCancel
    \/ KeyCtrl
    \/ KeyEnter
    \/ KeyCharAbandon
    \/ KeyCharAppend
    \/ KeyEsc

SpecTerm == InitTerm /\ [][NextTerm]_vars

(***************************************************************************)
(* get_function of lk/src/script.rs, called with a line and the comment    *)
(* lines accumulated before it.  A line is a sequence of characters; a     *)
(* comment line is copied as a whole and is kept as one string.            *)
(***************************************************************************)
\* the characters of a line: a letter, white space and the two parentheses
LineChars == {"f", " ", "(", ")"}

HeaderLines == UNION {[1..n -> LineChars] : n \in 0..MaxLineLen}

CommentChoices ==
    { <<>>, <<"First line">>, <<"First line", "Second # line">>,
      <<"Second # line", "First line">> }

\* char::is_whitespace, on LineChars
IsWhitespace(c) == c = " "

\* `line.split("()").next()`: the text before the first "()", the whole line
\* when there is none; split always yields a first piece
SplitNext(s) ==
    LET at == {i \in 1..(Len(s) - 1) : s[i] = "(" /\ s[i + 1] = ")"}
    IN  IF at = {} THEN s
        ELSE SubSeq(s, 1, (CHOOSE i \in at : \A j \in at : i <= j) - 1)

RECURSIVE TrimStart(_)
TrimStart(s) ==
    IF s # <<>> /\ IsWhitespace(Head(s)) THEN TrimStart(Tail(s)) ELSE s

RECURSIVE TrimEnd(_)
TrimEnd(s) ==
    IF s # <<>> /\ IsWhitespace(s[Len(s)])
    THEN TrimEnd(SubSeq(s, 1, Len(s) - 1))
    ELSE s

\* str::trim
Trim(s) == TrimEnd(TrimStart(s))

\* get_function that keeps the white space around the name
get_function_noTrim(ln, so_far) ==
    [name |-> SplitNext(ln),
     comment |-> [i \in 1..Len(so_far) |-> so_far[i]],
     returned |-> TRUE]

get_function(ln, so_far) ==
    [name |-> Trim(SplitNext(ln)),
     comment |-> [i \in 1..Len(so_far) |-> so_far[i]],
     returned |-> TRUE]

InitScript ==
    /\ InitFinder(<<>>, 1)
    /\ line \in HeaderLines
    /\ comments_found_so_far \in CommentChoices
    /\ function = NoFunction
    /\ ScanIdle
    /\ ExecIdle

\* `let function = get_function(line, &comments);`
GetFunction ==
    /\ ~function.returned
    /\ function' = get_function(line, comments_found_so_far)
    /\ UNCHANGED <<finderVars, line, comments_found_so_far, scanVars,
                   execVars>>

NextScript == GetFunction

SpecScript == InitScript /\ [][NextScript]_vars

(***************************************************************************)
(* Script::new of lk/src/script.rs: the loop over the lines of a file.     *)
(* The files are made of two comment lines, a hashbang, a comment that     *)
(* quotes a hashbang, an empty comment, an empty line, the header of a     *)
(* function and the header of a private function.                          *)
(***************************************************************************)
FileLineChoices ==
    { <<"#", " ", "a">>,
      <<"#", "#", "b">>,
      <<"#", "!", "/", "s">>,
      <<"#", " ", "#", "!", "/">>,
      <<"#">>,
      <<>>,
      <<"f", "(", ")", " ", "{">>,
      <<"_", "g", "(", ")", "{">> }

Files == UNION {[1..n -> FileLineChoices] : n \in 0..MaxFileLines}

\* str::starts_with
StartsWith(s, p) == Len(s) >= Len(p) /\ SubSeq(s, 1, Len(p)) = p

\* str::contains
Contains(s, p) ==
    \E i \in 1..(Len(s) - Len(p) + 1) : SubSeq(s, i, i + Len(p) - 1) = p

\* str::trim_start_matches(c)
RECURSIVE TrimStartMatches(_, _)
TrimStartMatches(s, c) ==
    IF s # <<>> /\ Head(s) = c THEN TrimStartMatches(Tail(s), c) ELSE s

clean_comment_line(ln) == TrimStart(TrimStartMatches(ln, "#"))

\* the regex `^.*\(\).*\{$`: a "()" somewhere and a "{" at the end, after it
is_function_header_line(ln) ==
    IF StartsWith(Trim(ln), <<"_">>)
    THEN FALSE
    ELSE \E i \in 1..(Len(ln) - 2) :
            ln[i] = "(" /\ ln[i + 1] = ")" /\ ln[Len(ln)] = "{"

\* the loop body that clears the comments at function headers only
LoopBody_keepComments(st, ln) ==
    IF StartsWith(ln, <<"#">>)
    THEN IF Contains(ln, <<"#", "!", "/">>)
         THEN [st EXCEPT !.in_header_comments = TRUE]
         ELSE IF st.in_header_comments
         THEN LET comment == clean_comment_line(ln)
              IN  IF st.included_comments = <<>> /\ comment = <<>>
                  THEN st
                  ELSE [st EXCEPT !.included_comments = Append(@, comment)]
         ELSE [st EXCEPT !.comments = Append(@, clean_comment_line(ln))]
    ELSE IF is_function_header_line(ln)
         THEN [st EXCEPT !.included_functions =
                             Append(@, get_function(ln, st.comments)),
                         !.comments = <<>>,
                         !.in_header_comments = FALSE]
         ELSE [st EXCEPT !.in_header_comments = FALSE]

\* the body of `for line in lines.flatten()`, on st = [comments,
\* included_comments, included_functions, in_header_comments]
LoopBody(st, ln) ==
    IF StartsWith(ln, <<"#">>)
    THEN IF Contains(ln, <<"#", "!", "/">>)
         THEN [st EXCEPT !.in_header_comments = TRUE]
         ELSE IF st.in_header_comments
         THEN LET comment == clean_comment_line(ln)
              IN  IF st.included_comments = <<>> /\ comment = <<>>
                  THEN st
                  ELSE [st EXCEPT !.included_comments = Append(@, comment)]
         ELSE [st EXCEPT !.comments = Append(@, clean_comment_line(ln))]
    ELSE [st EXCEPT !.included_functions =
                        IF is_function_header_line(ln)
                        THEN Append(@, get_function(ln, st.comments))
                        ELSE @,
                    !.comments = <<>>,
                    !.in_header_comments = FALSE]

InitScan ==
    /\ InitFinder(<<>>, 1)
    /\ line = <<>>
    /\ comments_found_so_far = <<>>
    /\ function = NoFunction
    /\ file \in Files
    /\ pos = 1
    /\ comments = <<>>
    /\ included_comments = <<>>
    /\ included_functions = <<>>
    /\ in_header_comments = FALSE
    /\ ExecIdle

\* one iteration of the loop, on the next line of the file
ScanLine ==
    /\ pos <= Len(file)
    /\ LET st == LoopBody([comments |-> comments,
                           included_comments |-> included_comments,
                           included_functions |-> included_functions,
                           in_header_comments |-> in_header_comments],
                          file[pos])
       IN  /\ comments' = st.comments
           /\ included_comments' = st.included_comments
           /\ included_functions' = st.included_functions
           /\ in_header_comments' = st.in_header_comments
    /\ pos' = pos + 1
    /\ UNCHANGED <<finderVars, line, comments_found_so_far, function, file,
                   execVars>>

NextScan == ScanLine

SpecScan == InitScan /\ [][NextScan]_vars

(***************************************************************************)
(* BashFile::execute of src/bash_file.rs and execute_runsh_file of         *)
(* src/main.rs: the temporary file is spawned as a child, the child is     *)
(* waited for, and the file is removed.  The child and the file system     *)
(* are the environment: the child may remove the file itself, it ends      *)
(* with an exit code or is ended by a signal, and spawn, wait and          *)
(* remove_file may fail.                                                   *)
(***************************************************************************)
LkFile == "./~lk_<id>"
RunshFile == "./~runsh"
Locations == {LkFile, RunshFile}

\* the exit codes of the child
ExitCodes == {0, 1, 2, 127}

Yikes == "Yikes! I couldn't remove my temporary file"
NoStatus == "Your function exited without a status code!"

\* execute is called once the file was written
InitExec ==
    /\ InitFinder(<<>>, 1)
    /\ line = <<>>
    /\ comments_found_so_far = <<>>
    /\ function = NoFunction
    /\ ScanIdle
    /\ location \in Locations
    /\ temp_file = TRUE
    /\ cmd = "none"
    /\ exit_status = NoCode
    /\ exec_pc = "spawn"
    /\ stderr = <<>>

ExecKeeps == UNCHANGED <<finderVars, line, comments_found_so_far, function,
                         scanVars, location>>

\* `Command::new(..).spawn().unwrap()`
Spawn ==
    /\ exec_pc = "spawn"
    /\ \/ cmd' = "running" /\ exec_pc' = "wait"
       \/ cmd' = cmd /\ exec_pc' = "panicked"
    /\ UNCHANGED <<temp_file, exit_status, stderr>>
    /\ ExecKeeps

\* the child removes the file it was started from
ChildRemovesFile ==
    /\ cmd = "running"
    /\ temp_file
    /\ temp_file' = FALSE
    /\ UNCHANGED <<cmd, exit_status, exec_pc, stderr>>
    /\ ExecKeeps

\* the child exits with a code
ChildExits ==
    /\ cmd = "running"
    /\ \E code \in ExitCodes : exit_status' = SomeCode(code)
    /\ cmd' = "ended"
    /\ UNCHANGED <<temp_file, exec_pc, stderr>>
    /\ ExecKeeps

\* the child is ended by a signal
ChildKilled ==
    /\ cmd = "running"
    /\ exit_status' = NoCode
    /\ cmd' = "ended"
    /\ UNCHANGED <<temp_file, exec_pc, stderr>>
    /\ ExecKeeps

\* `let exit_status = cmd.wait()?;`
Wait ==
    /\ exec_pc = "wait"
    /\ \/ cmd = "ended" /\ exec_pc' = "match"
       \/ exec_pc' = "failed"
    /\ UNCHANGED <<temp_file, cmd, exit_status, stderr>>
    /\ ExecKeeps

\* the arm `Some(code)` up to the call of std::process::exit: remove_file
\* removes the file, or fails because there is none, or fails otherwise
MatchSome ==
    /\ exec_pc = "match"
    /\ exit_status # NoCode
    /\ \/ /\ temp_file
          /\ temp_file' = FALSE
          /\ stderr' = stderr
       \/ /\ ~temp_file
          /\ temp_file' = FALSE
          /\ stderr' = IF location = LkFile THEN stderr
                                            ELSE Append(stderr, Yikes)
       \/ /\ temp_file
          /\ temp_file' = TRUE
          /\ stderr' = Append(stderr, Yikes)
    /\ exec_pc' = "exit"
    /\ UNCHANGED <<cmd, exit_status>>
    /\ ExecKeeps

\* `std::process::exit(code)`
ProcessExit ==
    /\ exec_pc = "exit"
    /\ exec_pc' = "exited"
    /\ UNCHANGED <<temp_file, cmd, exit_status, stderr>>
    /\ ExecKeeps

\* the arm `None`, and the `Ok(())` after the match
MatchNone ==
    /\ exec_pc = "match"
    /\ exit_status = NoCode
    /\ stderr' = Append(stderr, NoStatus)
    /\ exec_pc' = "returned"
    /\ UNCHANGED <<temp_file, cmd, exit_status>>
    /\ ExecKeeps

NextExec ==
    \/ Spawn
    \/ ChildRemovesFile
    \/ ChildExits
    \/ ChildKilled
    \/ Wait
    \/ MatchSome
    \/ ProcessExit
    \/ MatchNone

SpecExec == InitExec /\ [][NextExec]_vars

\* the loop polls without blocking, so the timeout check at the top of an
\* iteration is reached again and again
LiveSpec == Init /\ [][Next]_vars /\ WF_vars(TimeoutCancel)

TypeOK ==
    /\ pc \in {"new", "start", "loop", "done"}
    /\ Len(search_term) <= MaxQuery
    /\ escaped \in {EscNone, EscPending, EscBracket}
    /\ elapsed \in 0..(EscTimeoutMicros + TickMicros)
    /\ exit \in {"", "timeout", "ctrl", "enter", "error", "panic"}
    /\ (pc = "done") = (exit # "")

(***************************************************************************)
(* The properties.                                                         *)
(***************************************************************************)
\* the items that match the current query, in the order of all_items
Matching == FilterMatches(ScoreAll(all_items, search_term))

\* the stable order by descending rank alone
RECURSIVE InsertByRank(_, _)
InsertByRank(sorted, x) ==
    IF sorted = <<>> THEN <<x>>
    ELSE IF Head(sorted).score.rank < x.score.rank
         THEN <<x>> \o sorted
         ELSE <<Head(sorted)>> \o InsertByRank(Tail(sorted), x)

RECURSIVE StableByRank(_)
StableByRank(s) ==
    IF s = <<>> THEN <<>>
    ELSE InsertByRank(StableByRank(SubSeq(s, 1, Len(s) - 1)), s[Len(s)])

ArrowTailWaiting ==
    /\ Len(stdin) >= 2
    /\ stdin[1] = Token("[", TRUE)
    /\ stdin[2].burst
    /\ stdin[2].key \in {"A", "B"}

\* C2: when Escape, '[', 'A' (or 'B') are delivered together, the session
\* does not cancel on the Escape timeout, however late the loop polls again.
C2_ArrowBurstNeverCancels ==
    ~(exit = "timeout" /\ lastKey = "Esc" /\ lastEvent = "Escape"
        /\ ArrowTailWaiting)

\* a step of the loop itself: it leaves the loop or consumes a key
ProgramStep == pc' # pc \/ Len(stdin') < Len(stdin)

\* C3: with an Escape pending for longer than the threshold, the next thing
\* the loop does is the one Cancel, which leaves the query, the matches and
\* the selection as they were, and the session does end that way: find
\* returns None.
C3_EscapeAloneCancels ==
    /\ [][(/\ pc = "loop"
           /\ escaped = EscPending
           /\ elapsed > EscTimeoutMicros
           /\ ProgramStep)
          => (/\ pc' = "done"
              /\ exit' = "timeout"
              /\ result' = OkNone
              /\ UNCHANGED <<search_term, matches, list>>)]_vars
    /\ (pc = "loop" /\ escaped = EscPending /\ elapsed > EscTimeoutMicros)
          ~> (pc = "done" /\ exit = "timeout" /\ result = OkNone)

C3_Witness ==
    /\ exit = "timeout"
    /\ result = OkNone
    /\ lastKey = "Esc"
    /\ lastEvent = "Escape"
    /\ stdin = <<>>
    /\ search_term # <<>>

\* C4: once Ctrl-C or Ctrl-D is read, in whatever decoder state and with
\* whatever query, find has returned None and that step called neither
\* update_matches (nor the matcher) nor render.
C4_CtrlEndsAtOnce ==
    lastKey \in {"CtrlC", "CtrlD"} =>
        /\ pc = "done"
        /\ exit = "ctrl"
        /\ result = OkNone
        /\ calls = NoCalls

C4_Witness ==
    /\ lastKey = "CtrlD"
    /\ escaped = EscBracket
    /\ search_term # <<>>
    /\ pc = "done"

\* C5: once Enter is read with matches non-empty, find has returned
\* Some(payload) of the selected match, which is the item the list window
\* reports as selected.
C5_EnterReturnsSelected ==
    (lastKey = "Enter" /\ matches # <<>>) =>
        /\ pc = "done"
        /\ ~ListGetSelected(list).is_blank
        /\ ListGetSelected(list) =
              matches[list.scroll_offset + list.selected_index + 1]
        /\ result =
              OkSome(matches[list.scroll_offset + list.selected_index + 1].item)

C5_Witness ==
    /\ lastKey = "Enter"
    /\ exit = "enter"
    /\ search_term # <<>>
    /\ list.scroll_offset + list.selected_index > 0
    /\ result.some

\* C6 (as claimed): Enter read while matches is empty leaves the session
\* running.
C6_EnterOnEmptyKeepsRunning ==
    (lastKey = "Enter" /\ matches = <<>>) => pc = "loop"

\* C6 (amended): Enter read while matches is empty ends the session: find
\* returns None.
C6_EnterOnEmptyReturnsNone ==
    (lastKey = "Enter" /\ matches = <<>>) =>
        (pc = "done" /\ exit = "enter" /\ result = OkNone)

C6_Witness ==
    /\ lastKey = "Enter"
    /\ matches = <<>>
    /\ all_items # <<>>
    /\ pc = "done"

\* C7: with an empty item collection, whatever was typed, once Enter is read
\* find has returned None, the loop is over and the terminal is cooked.
C7_EmptyCollectionEnter ==
    (all_items = <<>> /\ lastKey = "Enter") =>
        (pc = "done" /\ result = OkNone /\ ~raw)

C7_Witness ==
    /\ all_items = <<>>
    /\ lastKey = "Enter"
    /\ search_term # <<>>
    /\ result = OkNone

\* C8: however find stopped (confirm, Escape timeout, Ctrl-C, Ctrl-D, a write
\* error of a repaint or of the final writes), raw mode has been released;
\* it is held for as long as the session runs.
C8_RawModeReleased ==
    /\ pc = "done" => ~raw
    /\ pc # "done" => raw

C8_Witness ==
    /\ pc = "done"
    /\ exit = "error"
    /\ lastKey = "Enter"
    /\ matches # <<>>
    /\ ~raw

\* the screen shows the current query, rows and selection
ScreenShows ==
    /\ screen.complete
    /\ screen.items = list.items
    /\ screen.selected = list.selected_index
    /\ screen.prompt = search_term

\* C9: the key a step consumes is the oldest unread one, a step that applies
\* Insert, Backspace, NavigateUp or NavigateDown repaints once, and whenever
\* the loop goes on to read the next key the screen shows the state that the
\* step left.
C9_EveryEventRepainted ==
    [][(Len(stdin') < Len(stdin)) =>
          /\ lastKey' = Head(stdin).key
          /\ stdin' = Tail(stdin)
          /\ (lastEvent' \in {"Insert", "Backspace", "Up", "Down"}
                => calls'.render = 1)
          /\ (pc' = "loop" => ScreenShows')]_vars

C9_Witness ==
    /\ pc = "loop"
    /\ lastEvent = "Down"
    /\ list.selected_index = 1
    /\ screen.selected = 1
    /\ search_term # <<>>

\* C10: the list window always has exactly lines_to_show rows; each row is
\* the match at scroll_offset + row when there is one and blank otherwise, so
\* no row lies outside matches and at least lines_to_show - |matches| rows
\* are blank.
C10_WindowRows ==
    /\ Len(list.items) = list.lines_to_show
    /\ \A r \in 1..list.lines_to_show :
          IF list.scroll_offset + r <= Len(matches)
          THEN list.items[r] = matches[list.scroll_offset + r]
          ELSE list.items[r].is_blank
    /\ list.scroll_offset >= 0
    /\ Cardinality({r \in 1..list.lines_to_show : list.items[r].is_blank})
          >= list.lines_to_show - Len(matches)

C10_Witness ==
    /\ lastEvent = "Insert"
    /\ matches # <<>>
    /\ Len(matches) < list.lines_to_show
    /\ list.items[list.lines_to_show].is_blank
    /\ ~list.items[1].is_blank

\* the index in matches of the selected row
Sel == list.scroll_offset + list.selected_index

\* C11: whenever matches is non-empty, the scroll offset is not negative, the
\* selected row is a row of the window, scroll_offset + selected_index is an
\* index of matches, and the selected row is that match and not a blank row.
C11_SelectionValid ==
    matches # <<>> =>
        /\ list.scroll_offset >= 0
        /\ list.selected_index \in 0..(list.lines_to_show - 1)
        /\ Sel < Len(matches)
        /\ ~ListGetSelected(list).is_blank
        /\ ListGetSelected(list) = matches[Sel + 1]

C11_Witness ==
    /\ lastEvent = "Insert"
    /\ matches # <<>>
    /\ before.idx # Sel
    /\ list.scroll_offset > 0

\* C12: a move-up read while the first match is selected leaves the first
\* match selected, and a move-down read while the last match is selected
\* leaves the last match selected; so does any number of them.
C12_NoWraparound ==
    [][(Len(stdin') < Len(stdin) /\ matches # <<>>) =>
          /\ (lastEvent' = "Up" /\ Sel = 0) =>
                (Sel' = 0 /\ list'.tracked = Identity(matches'[1]))
          /\ (lastEvent' = "Down" /\ Sel = Len(matches) - 1) =>
                (/\ Sel' = Len(matches') - 1
                 /\ list'.tracked = Identity(matches'[Len(matches')]))]_vars

C12_Witness ==
    /\ lastEvent = "Down"
    /\ Len(matches) >= 2
    /\ before.idx = Len(matches) - 1
    /\ Sel = Len(matches) - 1
    /\ before.sel = list.tracked

\* C13: after a query edit (a character appended or removed) that leaves
\* matches non-empty, the selected item is the one that was selected before
\* when it is still a match, at whatever index it now has; when it is not (or
\* nothing was selected), the selection and the scroll offset are both 0.
C13_SelectionFollowsItem ==
    [][(/\ Len(stdin') < Len(stdin)
        /\ lastEvent' \in {"Insert", "Backspace"}
        /\ matches' # <<>>) =>
          IF list.tracked # <<>> /\ IndexOf(matches', list.tracked) # -1
          THEN /\ list'.tracked = list.tracked
               /\ Identity(ListGetSelected(list')) = list.tracked
               /\ Sel' = IndexOf(matches', list.tracked)
          ELSE /\ list'.selected_index = 0
               /\ list'.scroll_offset = 0
               /\ list'.tracked = Identity(matches'[1])]_vars

C13_Witness ==
    /\ lastEvent = "Insert"
    /\ matches # <<>>
    /\ before.sel = list.tracked
    /\ before.idx > 0
    /\ before.idx # Sel
    /\ Identity(ListGetSelected(list)) = before.sel

\* the labels of a sequence of items
Names(items) == [i \in 1..Len(items) |-> items[i].name]

\* C14: in the session over alpha, beta, alcove with two rows, whenever the
\* query is "al" the matches are alpha, alcove in that order; and when the
\* last event was a move-down and Enter is read next, find returns the
\* payload of alcove.
C14_ScenarioAlcove ==
    /\ []((pc = "loop" /\ search_term = <<"a", "l">>) =>
            Names(matches) = <<ScenarioItems[1].name, ScenarioItems[3].name>>)
    /\ [][(/\ pc = "loop"
           /\ search_term = <<"a", "l">>
           /\ lastEvent = "Down"
           /\ Len(stdin') < Len(stdin)
           /\ lastKey' = "Enter") =>
             (/\ pc' = "done"
              /\ result' = OkSome(ScenarioItems[3].item))]_vars

C14_Witness ==
    /\ search_term = <<"a", "l">>
    /\ lastKey = "Enter"
    /\ exit = "enter"
    /\ before.idx = 1
    /\ result = OkSome(ScenarioItems[3].item)

\* a step that repaints a model it did not change, after a complete repaint
RepaintsSameModel ==
    /\ Len(stdin') < Len(stdin)
    /\ calls'.render = 1
    /\ screen.complete
    /\ screen'.complete
    /\ search_term' = search_term
    /\ matches' = matches
    /\ list' = list

\* C15 (as claimed): a repaint of an unchanged model writes what the repaint
\* before it wrote, also when that one was the first paint of the session.
C15_RepaintIdempotent ==
    [][RepaintsSameModel => screen' = screen]_vars

\* C15 (amended): a repaint of an unchanged model writes what the repaint
\* before it wrote, except for the lines_to_show blank rows that the first
\* paint of the session reserves and no later paint writes again.
C15_RepaintIdempotentAfterFirst ==
    [][RepaintsSameModel =>
          /\ screen' = [screen EXCEPT !.reserved = 0]
          /\ (screen.reserved = 0 => screen' = screen)]_vars

C15_Witness ==
    /\ lastEvent = "Up"
    /\ pc = "loop"
    /\ screen.complete
    /\ matches # <<>>
    /\ search_term # <<>>
    /\ before = Selection(list)
    /\ screen.selected = list.selected_index

ParensAt(s, i) == i \in 1..(Len(s) - 1) /\ s[i] = "(" /\ s[i + 1] = ")"

\* the first n characters of s are what comes before its first "()"
BeforeFirstParens(s, n) ==
    /\ \A i \in 1..n : ~ParensAt(s, i)
    /\ \/ ParensAt(s, n + 1)
       \/ n = Len(s) /\ \A i \in 1..Len(s) : ~ParensAt(s, i)

\* C17: once get_function has returned, the name is the part of the line
\* before its first "()" (the whole line when it has none) without the white
\* space at its two ends, and the comment is the sequence of comment lines
\* that was passed in, unchanged and in the same order.
C17_GetFunction ==
    function.returned =>
        /\ \E n \in 0..Len(line) :
              /\ BeforeFirstParens(line, n)
              /\ \E a \in 1..(n + 1), b \in 0..n :
                    /\ function.name = SubSeq(line, a, b)
                    /\ \A i \in 1..(a - 1) : line[i] = " "
                    /\ \A i \in (b + 1)..n : line[i] = " "
                    /\ a <= b => (line[a] # " " /\ line[b] # " ")
        /\ function.comment = comments_found_so_far

C17_Witness ==
    /\ function.returned
    /\ line = <<" ", "f", " ", "(", ")">>
    /\ function.name = <<"f">>
    /\ function.comment = <<"First line", "Second # line">>

\* C18: with Escape and '[' read, no key waiting and more than the threshold
\* elapsed since the Escape, the next iteration of the loop can resolve the
\* sequence to Cancel and end the session; the loop is not left to wait for
\* a third byte.
C18_BracketTimesOut ==
    (/\ pc = "loop"
     /\ escaped = EscBracket
     /\ elapsed > EscTimeoutMicros
     /\ stdin = <<>>) => ENABLED TimeoutCancel

\* C19: a character other than '[', a Backspace or an Enter read while an
\* Escape is pending is handled as it is when no escape is pending: the
\* character is appended to the query, Backspace removes the last character,
\* Enter ends the session; and the pending Escape is forgotten.
C19_StrayTokenRedispatched ==
    [][(/\ pc = "loop"
        /\ escaped = EscPending
        /\ Len(stdin') < Len(stdin)
        /\ lastKey' \in (Chars \ {"["}) \cup {"Backspace", "Enter"}) =>
          /\ (lastKey' # "Enter" => escaped' = EscNone)
          /\ (lastKey' \in Chars /\ Len(search_term) < MaxQuery) =>
                search_term' = Append(search_term, lastKey')
          /\ (lastKey' = "Backspace" /\ search_term # <<>>) =>
                search_term' = SubSeq(search_term, 1, Len(search_term) - 1)
          /\ (lastKey' = "Enter" => (pc' = "done" /\ exit' = "enter"))]_vars

\* C20: a key other than 'A' and 'B' (and other than Ctrl-C and Ctrl-D, which
\* cancel) read while Escape-then-'[' is pending only ends the sequence: the
\* decoder is idle again, the query, the matches and the list are as they
\* were, and the session goes on.
C20_BracketTailDropped ==
    [][(/\ pc = "loop"
        /\ escaped = EscBracket
        /\ Len(stdin') < Len(stdin)
        /\ lastKey' \notin {"A", "B", "CtrlC", "CtrlD"}) =>
          /\ escaped' = EscNone
          /\ pc' = "loop"
          /\ UNCHANGED <<search_term, matches, list>>]_vars

\* the matcher calls of the last step: each scoring pass calls it per item
MatcherCalls == calls.scoring * Len(all_items)

\* C21: the matcher runs only when the query changes: a step that reads a
\* key and leaves the query as it was (a move up or down, a Backspace on the
\* empty query) calls the matcher for no item, and a step that edits the
\* query calls it once for each item.
C21_MatcherOnlyOnQueryChange ==
    [][(Len(stdin') < Len(stdin)) =>
          /\ (search_term' = search_term => MatcherCalls' = 0)
          /\ (search_term' # search_term => MatcherCalls' = Len(all_items))]_vars

\* C22: a step that reads a character appends it to the query, and a step
\* that reads Backspace removes exactly the last character of the query, of
\* whatever byte width the characters are, or leaves the empty query empty;
\* no such step fails.
C22_QueryEdits ==
    [][(Len(stdin') < Len(stdin)) =>
          /\ exit' # "panic"
          /\ lastEvent' = "Insert" =>
                search_term' = Append(search_term, lastKey')
          /\ lastEvent' = "Backspace" =>
                search_term' = IF search_term = <<>> THEN <<>>
                               ELSE SubSeq(search_term, 1, Len(search_term) - 1)]_vars

\* the rows by which the list would end below the last row of the terminal
OverflowRows(y, capacity, height) ==
    IF y + capacity - height > 0 THEN y + capacity - height ELSE 0

\* C23: on every terminal that answers with its cursor row, and for every
\* capacity, FuzzyFinder::new completes and sets the overflow row count to
\* max(0, (cursor row + capacity) - terminal height); nothing changes the
\* count afterwards.
C23_OverflowRowsComputed ==
    /\ [][(pc = "new" /\ cursor_pos.ok) =>
            /\ pc' = "start"
            /\ positive_space_remaining' =
                  OverflowRows(cursor_pos.y, list.lines_to_show,
                               terminal_height)]_vars
    /\ [][pc # "new" =>
            positive_space_remaining' = positive_space_remaining]_vars

\* C24: the first repaint of a session, the one before the loop, writes the
\* lines_to_show blank rows and clears the first-paint flag; every repaint of
\* the loop finds the flag cleared and writes no blank row; and the flag,
\* once cleared, stays cleared.
C24_ReservedOnce ==
    /\ [][(pc = "start" /\ pc' = "loop") =>
            (screen'.reserved = list.lines_to_show /\ ~first')]_vars
    /\ [][(pc = "loop" /\ Len(stdin') < Len(stdin) /\ calls'.render = 1) =>
            (~first /\ screen'.reserved = 0)]_vars
    /\ [][~first => ~first']_vars

C24_Witness ==
    /\ pc = "loop"
    /\ lastEvent = "Backspace"
    /\ list.lines_to_show > 1
    /\ screen.complete
    /\ screen.reserved = 0
    /\ ~first

\* C25: a complete repaint draws the prompt on the row anchor + capacity + 1,
\* where anchor is the row goto_start moves to before the item rows are
\* drawn, whatever the overflow row count is.
C25_PromptBelowAnchor ==
    (pc = "loop" /\ screen.complete) =>
        screen.prompt_row = screen.anchor + list.lines_to_show + 1

\* the rows a session reserves: the list rows from the anchor down, the
\* prompt row and one guard row
ReservedRows ==
    screen.anchor..(screen.anchor + list.lines_to_show + 1)

\* C26: when find has returned from an Enter read with matches non-empty,
\* every reserved row (the list rows, the prompt row and the guard row) has
\* been cleared and cursor::Restore has been written.
C26_EnterClearsAndRestores ==
    (exit = "enter" /\ matches # <<>>) =>
        /\ ReservedRows \subseteq teardown.cleared
        /\ teardown.restore

\* C27: when find has returned from a Cancel (the timeout of a lone Escape,
\* Ctrl-C or Ctrl-D), cursor::Restore has been written.
C27_CancelRestoresCursor ==
    exit \in {"timeout", "ctrl"} => teardown.restore

\* C28: one move of the selection changes the scroll offset by at most one:
\* a move down from the last row of the window to a further match advances
\* it by exactly one, a move up from the first row to an earlier match
\* retreats it by exactly one, and a move whose selection stays in the window
\* leaves it as it was.
C28_ScrollByOne ==
    [][(/\ Len(stdin') < Len(stdin)
        /\ lastEvent' \in {"Up", "Down"}
        /\ pc' = "loop") =>
          /\ list'.scroll_offset - list.scroll_offset \in {-1, 0, 1}
          /\ (/\ lastEvent' = "Down"
              /\ list.selected_index = list.lines_to_show - 1
              /\ Sel + 1 < Len(matches))
                => list'.scroll_offset = list.scroll_offset + 1
          /\ (lastEvent' = "Up" /\ list.selected_index = 0 /\ Sel > 0)
                => list'.scroll_offset = list.scroll_offset - 1
          /\ (Sel' - list.scroll_offset \in 0..(list.lines_to_show - 1))
                => list'.scroll_offset = list.scroll_offset]_vars

C28_Witness ==
    /\ pc = "loop"
    /\ lastEvent = "Down"
    /\ list.lines_to_show = 1
    /\ before.idx = 1
    /\ Sel = 2
    /\ list.scroll_offset = 2

\* C29: when find has returned, it returned Some only if the loop ended by
\* reading Enter while matches was non-empty; after the Escape timeout, Ctrl-C,
\* Ctrl-D and Enter without a match it returned None; and a returned payload
\* is the payload of an item of the collection whose label the matcher
\* accepts for the query as it is then.
C29_SomeOnlyFromEnter ==
    pc = "done" =>
        /\ result.some =>
              (exit = "enter" /\ lastKey = "Enter" /\ matches # <<>>)
        /\ (exit \in {"timeout", "ctrl"} \/ (exit = "enter" /\ matches = <<>>))
              => result = OkNone
        /\ result.some =>
              \E i \in 1..Len(all_items) :
                 /\ all_items[i].item = result.val
                 /\ fuzzy_indices(all_items[i].name, search_term).some

C29_Witness ==
    /\ pc = "done"
    /\ result.some
    /\ search_term # <<>>
    /\ Len(matches) < Len(all_items)
    /\ Sel > 0

\* C30: in a session that FuzzyFinder::new has set up, the anchor row of the
\* repaints, console_offset minus the overflow row count, does not underflow
\* and is a row of the terminal (1 or more), whatever the cursor row, the
\* capacity and the height are and also when the cursor row is not detected.
C30_AnchorRowValid ==
    pc \in {"start", "loop"} =>
        /\ console_offset >= positive_space_remaining
        /\ goto_start(console_offset, positive_space_remaining) >= 1

\* the first line of the run of '#' lines that ends right before line h
RunStart(f, h) ==
    CHOOSE r \in 1..h :
       /\ \A i \in r..(h - 1) : StartsWith(f[i], <<"#">>)
       /\ r = 1 \/ ~StartsWith(f[r - 1], <<"#">>)

\* the cleaned text of the lines a..b of f
Cleaned(f, a, b) == [i \in 1..(b - a + 1) |-> clean_comment_line(f[a + i - 1])]

\* the lines of the run a..b before its first line that contains "#!/"
BeforeHashbang(f, a, b) ==
    LET hb == {i \in a..b : Contains(f[i], <<"#", "!", "/">>)}
    IN  IF hb = {} THEN b ELSE (CHOOSE i \in hb : \A j \in hb : i <= j) - 1

\* the step reads a function header line
ReadsHeader ==
    /\ pos <= Len(file)
    /\ pos' = pos + 1
    /\ ~StartsWith(file[pos], <<"#">>)
    /\ is_function_header_line(file[pos])

\* the step records one more function, whose comment is c
Records(c) ==
    /\ Len(included_functions') = Len(included_functions) + 1
    /\ SubSeq(included_functions', 1, Len(included_functions))
          = included_functions
    /\ included_functions'[Len(included_functions')].comment = c

ExecuteFinished == exec_pc \in {"exited", "returned"}

\* C32: once execute (execute_runsh_file) has finished, the temporary file
\* does not exist, whether the child ended with an exit code or without one.
C32_FileRemovedAfterExecute == ExecuteFinished => ~temp_file

====
